---- MODULE Spec2Model ----
(***************************************************************************)
(* Model of weasel's license audit (src/license.go): the tree walk with    *)
(* one worker per non-empty file, the shared result table `files` behind   *)
(* `filesLock`, and the sequential passes of main: inheritance from        *)
(* LICENSE files, reconciliation with the manifest, kind fallback, report. *)
(*                                                                         *)
(* A path is the sequence of its components (strings.Split(name, "/")).    *)
(* A license tag is the sequence of the pieces of its text: the base name  *)
(* followed by the one-character suffixes appended to it, so that          *)
(* <<"Apache", "~", "!">> is the Go string "Apache~!".  Two tags are the   *)
(* same Go string iff they are the same sequence.                          *)
(***************************************************************************)
EXTENDS Naturals, Sequences, FiniteSets, TLC

\* ---------------------------------------------------------------- bounds
\* The entries of the tree, those of them that get a worker (the non-empty
\* files), and the entries of the override table and of the manifest taken
\* together.
MaxFiles == 3
MaxWorkers == 2
MaxConfig == 1

\* ---------------------------------------------------------------- paths
\* The entries filepath.Walk can meet, in the order it visits them
\* (lexical within each directory).  They are the entries the callback does
\* not return nil for before line 108: no directory, no symlink, no .git and
\* no ignored name.
WalkOrder ==
    << <<"LICENSE">>,
       <<"d", "LICENSE">>,
       <<"d", "e", "LICENSE">>,
       <<"d", "e", "x.png">> >>

Paths == {WalkOrder[i] : i \in 1..Len(WalkOrder)}

\* A manifest entry naming a path that is in no tree.
Orphan == <<"gone">>

\* sort.Strings over the joined names: '/' sorts before every letter and
\* upper case before lower case, which for these names is the walk order.
SortRank(p) == CHOOSE i \in 1..Len(WalkOrder) : WalkOrder[i] = p

\* The walker (main's goroutine) as a holder of filesLock.
Main == <<>>

\* ---------------------------------------------------------------- tags
Tag(s) == <<s>>
Apache == Tag("Apache")
Docs == Tag("Docs")
Empty == Tag("Empty")
Ignore == Tag("Ignore")
MIT == Tag("MIT")

\* License("Error: " + err.Error() + "!")
ErrorTag(msg) == <<"Error: " \o msg, "!">>

\* string(license) + "~", string(license) + `!`
Suffix(t, c) == Append(t, c)

\* licStr[len(licStr)-1] == '!'
EndsWithBang(t) == t[Len(t)] = "!"

\* ---------------------------------------------------------------- files
\* What the walk and the reader meet at one entry of the tree.
\*   stat : "ok", or "err" when the callback gets err != nil
\*   size : info.Size()
\*   open : "ok" or "err" (os.Open fails)
\*   words: the whitespace-separated words of the content
\*   fail : 0, or k when the read of word k fails (words 1..k-1 were read)
File(stat, open, words, fail) ==
    [stat |-> stat, size |-> Len(words), open |-> open, words |-> words, fail |-> fail]

cEmpty == File("ok", "ok", <<>>, 0)
cNone == File("ok", "ok", <<"--", "foo">>, 0)
cApache == File("ok", "ok", <<"Apache", "License,">>, 0)
cMIT == File("ok", "ok", <<"MIT", "License">>, 0)
cBoth == File("ok", "ok", <<"Apache", "License,", "MIT", "License">>, 0)
cOpenErr == File("ok", "err", <<"foo">>, 0)
cReadErr == File("ok", "ok", <<"Apache", "License,", "MIT", "License">>, 3)
cStatErr == File("err", "ok", <<>>, 0)

Contents == {cEmpty, cNone, cApache, cMIT, cBoth, cOpenErr, cReadErr, cStatErr}

\* ---------------------------------------------------------------- tokenizer
\* stripPunc: leading and trailing punctuation is removed.
stripPunc(w) ==
    CASE w = "License," -> "License"
      [] w = "--" -> ""
      [] OTHER -> w

\* strings.ToLower
ToLower(w) ==
    CASE w = "Apache" -> "apache"
      [] w = "License" -> "license"
      [] w = "MIT" -> "mit"
      [] OTHER -> w

\* The words s.Scan() delivers: all of them, or those before the failed read
\* (Scan returns false on a read error and s.Err() is not looked at).
Scanned(c) ==
    IF c.fail = 0 THEN c.words ELSE SubSeq(c.words, 1, c.fail - 1)

\* The tokens sent on ch, in order: empty tokens are not sent.
RECURSIVE Tokenize(_)
Tokenize(ws) ==
    IF ws = <<>> THEN <<>>
    ELSE LET s == ToLower(stripPunc(Head(ws)))
         IN  IF s # "" THEN <<s>> \o Tokenize(Tail(ws)) ELSE Tokenize(Tail(ws))

\* ---------------------------------------------------------------- matcher
\* The phrase signatures, in the order they are tried at each token.
Signatures ==
    << [tag |-> Apache, phrase |-> <<"apache", "license">>],
       [tag |-> MIT, phrase |-> <<"mit", "license">>] >>

\* The phrase of signature g ends at token i of ts.
EndsAt(g, ts, i) ==
    /\ i >= Len(g.phrase)
    /\ SubSeq(ts, i - Len(g.phrase) + 1, i) = g.phrase

Contains(ls, t) == \E k \in 1..Len(ls) : ls[k] = t

\* One pass over the tokens: a tag is reported when its phrase completes.
RECURSIVE MatchFrom(_, _, _, _)
MatchFrom(ts, i, g, found) ==
    IF i > Len(ts) THEN found
    ELSE IF g > Len(Signatures) THEN MatchFrom(ts, i + 1, 1, found)
    ELSE IF EndsAt(Signatures[g], ts, i) /\ ~Contains(found, Signatures[g].tag)
         THEN MatchFrom(ts, i, g + 1, Append(found, Signatures[g].tag))
         ELSE MatchFrom(ts, i, g + 1, found)

newMultiMatcher(ts) == MatchFrom(ts, 1, 1, <<>>)

\* ---------------------------------------------------------------- per file
NoError == ""

\* identifyLicenses: the returned error is always nil.
identifyLicenses(c) ==
    [licenses |-> newMultiMatcher(Tokenize(Scanned(c))), err |-> NoError]

\* fileLicenses: os.Open, then identifyLicenses.
fileLicenses(c) ==
    IF c.open = "err"
    THEN [licenses |-> <<>>, err |-> "open failed"]
    ELSE identifyLicenses(c)

\* Uniq: duplicates removed, first-seen order kept.
RECURSIVE UniqFrom(_, _)
UniqFrom(ls, seen) ==
    IF ls = <<>> THEN seen
    ELSE IF Contains(seen, Head(ls)) THEN UniqFrom(Tail(ls), seen)
    ELSE UniqFrom(Tail(ls), Append(seen, Head(ls)))

Uniq(ls) == UniqFrom(ls, <<>>)

\* Collide: every member tag of the deduplicated list is retained.
Collide(ls) == ls

\* filekind: a kind tag for the names it recognizes, "" for the others.
filekind(name) ==
    IF name[Len(name)] = "x.png" THEN "Image" ELSE ""

\* files[p] of a Go map: the nil slice for a missing key.
Get(table, p) == IF p \in DOMAIN table THEN table[p] ELSE <<>>

\* files[p] = v: the entry is created on first write.
Put(table, p, v) == [q \in DOMAIN table \cup {p} |-> IF q = p THEN v ELSE table[q]]

\* ---------------------------------------------------------------- state
VARIABLES
    fs,          \* the tree: existing entry -> File
    override,    \* the override table: path -> forced tags
    documented,  \* the manifest: the paths it has an entry for
    quiet,       \* the -q flag
    files,       \* the result table: path -> tag sequence
    filesLock,   \* the holders of the table's mutex
    wg,          \* the WaitGroup counter
    wpc,         \* each worker's position
    wlic,        \* each worker's local `licenses`
    walkPos,     \* the index in WalkOrder of the walk's next entry
    walkErr,     \* filepath.Walk returned an error
    pc,          \* the position of main
    visited,     \* the keys the current range loop has been at
    failed,      \* the report's failure flag
    printed,     \* the lines printed by the report
    exitCode,    \* the process status once pc = "exit"
    tpc,         \* each tokenizer goroutine's position
    tpos,        \* the number of words each tokenizer's scanner has delivered
    ch,          \* each identifyLicenses call's channel: the buffered tokens
    closes,      \* the number of close(ch) calls on each channel
    got          \* the tokens each matcher has received

\* The state of the tokenizer/matcher pipelines.
pipe == <<tpc, tpos, ch, closes, got>>

vars == <<fs, override, documented, quiet, files, filesLock, wg, wpc, wlic,
          walkPos, walkErr, pc, visited, failed, printed, exitCode, pipe>>

inputs == <<fs, override, documented, quiet>>

OverrideVals == {<<Docs>>, <<Ignore>>, <<Apache, Ignore>>}

NeedsWorker(c) == c.stat = "ok" /\ c.size # 0

Trees ==
    {t \in UNION {[S -> Contents] : S \in {T \in SUBSET Paths : Cardinality(T) <= MaxFiles}} :
        Cardinality({p \in DOMAIN t : NeedsWorker(t[p])}) <= MaxWorkers}

\* Only the override entries of existing files are ever read.
Overrides(tree) ==
    UNION {[S -> OverrideVals] :
             S \in {T \in SUBSET DOMAIN tree : Cardinality(T) <= MaxConfig}}

Manifests(tree, table) ==
    {D \in SUBSET (DOMAIN tree \cup {Orphan}) :
        Cardinality(D) + Cardinality(DOMAIN table) <= MaxConfig}

\* No identifyLicenses call has been made.
PipeIdle ==
    /\ tpc = [p \in Paths |-> "none"]
    /\ tpos = [p \in Paths |-> 0]
    /\ ch = [p \in Paths |-> <<>>]
    /\ closes = [p \in Paths |-> 0]
    /\ got = [p \in Paths |-> <<>>]

\* quiet := false; the -q flag is read by the report only and is drawn
\* where the report starts.
Init ==
    /\ fs \in Trees
    /\ override \in Overrides(fs)
    /\ documented \in Manifests(fs, override)
    /\ quiet = FALSE
    /\ files = <<>>
    /\ filesLock = {}
    /\ wg = 0
    /\ wpc = [p \in Paths |-> "none"]
    /\ wlic = [p \in Paths |-> <<>>]
    /\ walkPos = 1
    /\ walkErr = FALSE
    /\ pc = "walk"
    /\ visited = {}
    /\ failed = FALSE
    /\ printed = <<>>
    /\ exitCode = 0
    /\ PipeIdle

\* ---------------------------------------------------------------- manifest
\* documented.Documents(name)
Documents(name) == name \in documented

\* documented.Extra(): the entries that match no scanned file.
Extra == {e \in documented : e \notin DOMAIN files}

\* ---------------------------------------------------------------- the walk
\* The next entry the walk calls the callback for, 0 when there is none.
NextEntry ==
    LET left == {i \in walkPos..Len(WalkOrder) : WalkOrder[i] \in DOMAIN fs}
    IN  IF left = {} THEN 0 ELSE CHOOSE i \in left : \A j \in left : i <= j

Walking == pc = "walk" /\ NextEntry # 0 /\ Main \notin filesLock

\* if err != nil { return err }
WalkError ==
    /\ Walking
    /\ fs[WalkOrder[NextEntry]].stat = "err"
    /\ walkErr' = TRUE
    /\ pc' = "wait"
    /\ UNCHANGED <<inputs, files, filesLock, wg, wpc, wlic, walkPos, visited,
                   failed, printed, exitCode>>
    /\ UNCHANGED pipe

\* info.Size() == 0: filesLock.Lock()
WalkEmptyLock ==
    /\ Walking
    /\ fs[WalkOrder[NextEntry]].stat = "ok"
    /\ fs[WalkOrder[NextEntry]].size = 0
    /\ filesLock = {}
    /\ filesLock' = {Main}
    /\ walkPos' = NextEntry
    /\ UNCHANGED <<inputs, files, wg, wpc, wlic, walkErr, pc, visited,
                   failed, printed, exitCode>>
    /\ UNCHANGED pipe

\* files[name] = append(files[name], "Empty"); return nil (deferred Unlock)
WalkEmptyWrite ==
    /\ pc = "walk"
    /\ Main \in filesLock
    /\ LET name == WalkOrder[walkPos]
       IN  files' = Put(files, name, Append(Get(files, name), Empty))
    /\ filesLock' = filesLock \ {Main}
    /\ walkPos' = walkPos + 1
    /\ UNCHANGED <<inputs, wg, wpc, wlic, walkErr, pc, visited,
                   failed, printed, exitCode>>
    /\ UNCHANGED pipe

\* wg.Add(1); go func(name) {...}(name); return nil
WalkSpawn ==
    /\ Walking
    /\ NeedsWorker(fs[WalkOrder[NextEntry]])
    /\ wg' = wg + 1
    /\ wpc' = [wpc EXCEPT ![WalkOrder[NextEntry]] = "open"]
    /\ walkPos' = NextEntry + 1
    /\ UNCHANGED <<inputs, files, filesLock, wlic, walkErr, pc, visited,
                   failed, printed, exitCode>>
    /\ UNCHANGED pipe

\* filepath.Walk returns nil after the last entry
WalkEnd ==
    /\ pc = "walk"
    /\ NextEntry = 0
    /\ Main \notin filesLock
    /\ pc' = "wait"
    /\ UNCHANGED <<inputs, files, filesLock, wg, wpc, wlic, walkPos, walkErr, visited,
                   failed, printed, exitCode>>
    /\ UNCHANGED pipe

\* ---------------------------------------------------------------- workers
\* licenses, err := fileLicenses(name); if err != nil { licenses = [Error] }
WorkerDetect(name) ==
    /\ wpc[name] = "open"
    /\ LET r == fileLicenses(fs[name])
       IN  wlic' = [wlic EXCEPT ![name] =
                      IF r.err # NoError THEN <<ErrorTag(r.err)>> ELSE r.licenses]
    /\ wpc' = [wpc EXCEPT ![name] = "lock"]
    /\ UNCHANGED <<inputs, files, filesLock, wg, walkPos, walkErr, pc, visited,
                   failed, printed, exitCode>>
    /\ UNCHANGED pipe

\* Mutant of WorkerLock: the lock is taken although it is held.
WorkerLock_NoExclusion(name) ==
    /\ wpc[name] = "lock"
    /\ filesLock' = filesLock \cup {name}
    /\ wpc' = [wpc EXCEPT ![name] = "write"]
    /\ UNCHANGED <<inputs, files, wg, wlic, walkPos, walkErr, pc, visited,
                   failed, printed, exitCode>>
    /\ UNCHANGED pipe

\* filesLock.Lock()
WorkerLock(name) ==
    /\ wpc[name] = "lock"
    /\ filesLock = {}
    /\ filesLock' = {name}
    /\ wpc' = [wpc EXCEPT ![name] = "write"]
    /\ UNCHANGED <<inputs, files, wg, wlic, walkPos, walkErr, pc, visited,
                   failed, printed, exitCode>>
    /\ UNCHANGED pipe

\* Mutant of Merge: the detection result is appended before the override.
Merge_DetectionFirst(old, forced, licenses) == Collide(Uniq(old \o licenses \o forced))

\* The worker's entry after its three assignments to files[name].
Merge(old, forced, licenses) == Collide(Uniq(old \o forced \o licenses))

\* Mutant of WorkerWrite: the worker returns with the lock held.
WorkerWrite_NoUnlock(name) ==
    /\ wpc[name] = "write"
    /\ files' = Put(files, name, Merge(Get(files, name), Get(override, name), wlic[name]))
    /\ wg' = wg - 1
    /\ wpc' = [wpc EXCEPT ![name] = "done"]
    /\ UNCHANGED <<inputs, filesLock, wlic, walkPos, walkErr, pc, visited,
                   failed, printed, exitCode>>
    /\ UNCHANGED pipe

\* the three writes of files[name]; the deferred Unlock and wg.Done
WorkerWrite(name) ==
    /\ wpc[name] = "write"
    /\ files' = Put(files, name, Merge(Get(files, name), Get(override, name), wlic[name]))
    /\ filesLock' = filesLock \ {name}
    /\ wg' = wg - 1
    /\ wpc' = [wpc EXCEPT ![name] = "done"]
    /\ UNCHANGED <<inputs, wlic, walkPos, walkErr, pc, visited,
                   failed, printed, exitCode>>
    /\ UNCHANGED pipe

\* Mutant of Wait: main goes on without waiting for the workers.
Wait_NoJoin ==
    /\ pc = "wait"
    /\ pc' = IF walkErr THEN "exit" ELSE "inherit"
    /\ UNCHANGED <<inputs, files, filesLock, wg, wpc, wlic, walkPos, walkErr, visited,
                   failed, printed, exitCode>>
    /\ UNCHANGED pipe

\* wg.Wait(); if err != nil { fmt.Println(err); return }
Wait ==
    /\ pc = "wait"
    /\ wg = 0
    /\ pc' = IF walkErr THEN "exit" ELSE "inherit"
    /\ UNCHANGED <<inputs, files, filesLock, wg, wpc, wlic, walkPos, walkErr, visited,
                   failed, printed, exitCode>>
    /\ UNCHANGED pipe

\* ---------------------------------------------------------------- inheritance
LicNames == <<"LICENSE", "LICENCE", "LICENSE.md", "LICENCE.md", "LICENSE.txt", "LICENCE.txt">>

\* for i := len(parts) - 1; i > 0; i--
FirstDir(parts) == Len(parts) - 1
DirStop == 0

\* The first licPath with a non-empty entry, directory i first downwards and
\* LicNames[k] first onwards; <<>> when the loops end without one.
RECURSIVE FindLicense(_, _, _, _)
FindLicense(table, parts, i, k) ==
    IF ~(i > DirStop) THEN <<>>
    ELSE IF k > Len(LicNames) THEN FindLicense(table, parts, i - 1, 1)
    ELSE LET licPath == SubSeq(parts, 1, i) \o <<LicNames[k]>>
         IN  IF Len(Get(table, licPath)) # 0 THEN licPath
             ELSE FindLicense(table, parts, i, k + 1)

\* Mutant of Inherited: Docs is inherited like any other tag.
Inherited_WithDocs(ls) == [i \in 1..Len(ls) |-> Suffix(ls[i], "~")]

\* The tags appended for the license file's tags: all but Docs, each with "~".
RECURSIVE Inherited(_)
Inherited(ls) ==
    IF ls = <<>> THEN <<>>
    ELSE IF Head(ls) # Docs THEN <<Suffix(Head(ls), "~")>> \o Inherited(Tail(ls))
    ELSE Inherited(Tail(ls))

\* One iteration of the forUnknownFiles loop.
InheritEntry(table, name) ==
    IF Len(table[name]) = 0
    THEN LET licPath == FindLicense(table, name, FirstDir(name), 1)
         IN  IF licPath = <<>> THEN table[name]
             ELSE table[name] \o Inherited(table[licPath])
    ELSE table[name]

InheritStep(name) ==
    /\ pc = "inherit"
    /\ name \in DOMAIN files \ visited
    /\ files' = [files EXCEPT ![name] = InheritEntry(files, name)]
    /\ visited' = visited \cup {name}
    /\ UNCHANGED <<inputs, filesLock, wg, wpc, wlic, walkPos, walkErr, pc,
                   failed, printed, exitCode>>
    /\ UNCHANGED pipe

InheritEnd ==
    /\ pc = "inherit"
    /\ visited = DOMAIN files
    /\ pc' = "reconcile"
    /\ visited' = {}
    /\ UNCHANGED <<inputs, files, filesLock, wg, wpc, wlic, walkPos, walkErr,
                   failed, printed, exitCode>>
    /\ UNCHANGED pipe

\* ---------------------------------------------------------------- reconciliation
\* Mutant of NonTrivial: the tag is compared without its suffixes.
NonTrivial_BaseName(lic) == <<lic[1]>> \notin {Apache, Docs, Empty, Ignore}

\* Mutant of NonTrivial: Empty is missing from the trivial tags.
NonTrivial_NoEmpty(lic) == lic # Apache /\ lic # Docs /\ lic # Ignore

\* lic != Apache && lic != Docs && lic != Empty && lic != Ignore
NonTrivial(lic) == lic # Apache /\ lic # Docs /\ lic # Empty /\ lic # Ignore

\* The manifest is asked about the entry.
Asks(licenses) ==
    /\ Len(licenses) # 0
    /\ (Len(licenses) > 1 \/ NonTrivial(licenses[1]))

\* Mutant of ReconcileEntry: every tag is marked, the trivial ones too.
ReconcileEntry_MarkAll(licenses, name) ==
    IF Asks(licenses) /\ ~Documents(name)
    THEN [i \in 1..Len(licenses) |-> Suffix(licenses[i], "!")]
    ELSE licenses

\* Mutant of ReconcileEntry: the manifest is not asked.
ReconcileEntry_NoManifest(licenses, name) ==
    IF Asks(licenses)
    THEN [i \in 1..Len(licenses) |->
            IF NonTrivial(licenses[i]) THEN Suffix(licenses[i], "!") ELSE licenses[i]]
    ELSE licenses

\* One iteration of the second loop over files.
ReconcileEntry(licenses, name) ==
    IF Asks(licenses) /\ ~Documents(name)
    THEN [i \in 1..Len(licenses) |->
            IF NonTrivial(licenses[i]) THEN Suffix(licenses[i], "!") ELSE licenses[i]]
    ELSE licenses

ReconcileStep(name) ==
    /\ pc = "reconcile"
    /\ name \in DOMAIN files \ visited
    /\ files' = [files EXCEPT ![name] = ReconcileEntry(files[name], name)]
    /\ visited' = visited \cup {name}
    /\ UNCHANGED <<inputs, filesLock, wg, wpc, wlic, walkPos, walkErr, pc,
                   failed, printed, exitCode>>
    /\ UNCHANGED pipe

ReconcileEnd ==
    /\ pc = "reconcile"
    /\ visited = DOMAIN files
    /\ pc' = "fallback"
    /\ visited' = {}
    /\ UNCHANGED <<inputs, files, filesLock, wg, wpc, wlic, walkPos, walkErr,
                   failed, printed, exitCode>>
    /\ UNCHANGED pipe

\* ---------------------------------------------------------------- kind fallback
\* Mutant of FallbackEntry: the kind tag of an undocumented file is marked.
FallbackEntry_Marked(licenses, name) ==
    IF Len(licenses) = 0 /\ filekind(name) # ""
    THEN IF Documents(name) THEN <<Tag(filekind(name))>>
         ELSE <<Suffix(Tag(filekind(name)), "!")>>
    ELSE licenses

\* One iteration of the third loop over files.
FallbackEntry(licenses, name) ==
    IF Len(licenses) = 0 /\ filekind(name) # ""
    THEN <<Tag(filekind(name))>>
    ELSE licenses

FallbackStep(name) ==
    /\ pc = "fallback"
    /\ name \in DOMAIN files \ visited
    /\ files' = [files EXCEPT ![name] = FallbackEntry(files[name], name)]
    /\ visited' = visited \cup {name}
    /\ UNCHANGED <<inputs, filesLock, wg, wpc, wlic, walkPos, walkErr, pc,
                   failed, printed, exitCode>>
    /\ UNCHANGED pipe

\* the names are collected and sorted; failed := false.  The report that
\* follows is the first reader of quiet, whose value is drawn here.
FallbackEnd ==
    /\ pc = "fallback"
    /\ visited = DOMAIN files
    /\ pc' = "report"
    /\ visited' = {}
    /\ failed' = FALSE
    /\ quiet' \in BOOLEAN
    /\ UNCHANGED <<fs, override, documented, files, filesLock, wg, wpc, wlic, walkPos,
                   walkErr, printed, exitCode>>
    /\ UNCHANGED pipe

\* ---------------------------------------------------------------- report
Unknown == Suffix(Tag("Unknown"), "!")
ExtraLicense == Suffix(Tag("Extra-License"), "!")

\* the file sets undoc: no tag at all, or a first tag that ends with '!'
undoc(lics) == IF Len(lics) = 0 THEN TRUE ELSE EndsWithBang(lics[1])

\* Mutant of ignore: only the first tag is compared with "Ignore".
ignore_FirstOnly(lics) == Len(lics) # 0 /\ lics[1] = Ignore

\* the file sets ignore: the first tag or a later one is the string "Ignore"
ignore(lics) == \E i \in 1..Len(lics) : lics[i] = Ignore

\* licStr, as the list of the tags it joins with ", "
licStr(lics) == IF Len(lics) = 0 THEN <<Unknown>> ELSE lics

Line(errStr, str, filename) == [err |-> errStr, lic |-> str, name |-> filename]

\* The line the report prints for a file, <<>> when it prints none.
FileLines(lics, filename) ==
    IF ~ignore(lics) /\ (undoc(lics) \/ ~quiet)
    THEN <<Line(IF undoc(lics) THEN "Error" ELSE "", licStr(lics), filename)>>
    ELSE <<>>

\* filenames[len(visited)]: the least name not yet reported
NextName ==
    CHOOSE n \in DOMAIN files \ visited :
        \A m \in DOMAIN files \ visited : SortRank(n) <= SortRank(m)

ReportStep ==
    /\ pc = "report"
    /\ visited # DOMAIN files
    /\ LET filename == NextName
           lics == files[filename]
       IN  /\ printed' = printed \o FileLines(lics, filename)
           /\ failed' = (failed \/ (~ignore(lics) /\ undoc(lics)))
           /\ visited' = visited \cup {filename}
    /\ UNCHANGED <<inputs, files, filesLock, wg, wpc, wlic, walkPos, walkErr, pc,
                   exitCode>>
    /\ UNCHANGED pipe

\* documented.Extra() as a list: tree paths in sorted order, then the others
RECURSIVE ExtraLines(_, _)
ExtraLines(extra, i) ==
    IF i > Len(WalkOrder)
    THEN IF Orphan \in extra THEN <<Line("Error", <<ExtraLicense>>, Orphan)>> ELSE <<>>
    ELSE (IF WalkOrder[i] \in extra
          THEN <<Line("Error", <<ExtraLicense>>, WalkOrder[i])>> ELSE <<>>)
         \o ExtraLines(extra, i + 1)

\* for _, extra := range documented.Extra() { print; failed = true }
ReportExtra ==
    /\ pc = "report"
    /\ visited = DOMAIN files
    /\ printed' = printed \o ExtraLines(Extra, 1)
    /\ failed' = (failed \/ Extra # {})
    /\ pc' = "status"
    /\ UNCHANGED <<inputs, files, filesLock, wg, wpc, wlic, walkPos, walkErr, visited,
                   exitCode>>
    /\ UNCHANGED pipe

\* if failed { os.Exit(1) }; os.Exit(0)
Exit ==
    /\ pc = "status"
    /\ exitCode' = IF failed THEN 1 ELSE 0
    /\ pc' = "exit"
    /\ UNCHANGED <<inputs, files, filesLock, wg, wpc, wlic, walkPos, walkErr, visited,
                   failed, printed>>
    /\ UNCHANGED pipe

\* ---------------------------------------------------------------- specification
Next ==
    \/ WalkError
    \/ WalkEmptyLock
    \/ WalkEmptyWrite
    \/ WalkSpawn
    \/ WalkEnd
    \/ \E name \in Paths : WorkerDetect(name)
    \/ \E name \in Paths : WorkerLock(name)
    \/ \E name \in Paths : WorkerWrite(name)
    \/ Wait
    \/ \E name \in Paths : InheritStep(name)
    \/ InheritEnd
    \/ \E name \in Paths : ReconcileStep(name)
    \/ ReconcileEnd
    \/ \E name \in Paths : FallbackStep(name)
    \/ FallbackEnd
    \/ ReportStep
    \/ ReportExtra
    \/ Exit

Spec == Init /\ [][Next]_vars

\* ---------------------------------------------------------------- tokenizer and matcher
\* One call of identifyLicenses step by step: the tokenizer goroutine, the
\* channel and the matcher that receives from it.  WorkerDetect above is the
\* same call taken as one step.

\* ch := make(chan string, 32)
QueueCap == 32

\* The words a pipeline's file is made of, over and over.
Cycle == <<"Apache", "License,", "--", "MIT", "License">>

\* The longest file of a pipeline, in words.
MaxWords == 42

\* The file of n words that starts at word k of the cycle.
Words(n, k) == [i \in 1..n |-> Cycle[((i + k - 2) % Len(Cycle)) + 1]]

\* The token the tokenizer has in hand: that of the last word scanned.
Token(name) == ToLower(stripPunc(Scanned(fs[name])[tpos[name]]))

\* f, err := os.Open(name); on success identifyLicenses makes the channel,
\* starts the tokenizer and calls the matcher.
WorkerOpen(name) ==
    /\ wpc[name] = "open"
    /\ IF fs[name].open = "err"
       THEN /\ wlic' = [wlic EXCEPT ![name] = <<ErrorTag("open failed")>>]
            /\ wpc' = [wpc EXCEPT ![name] = "lock"]
            /\ UNCHANGED pipe
       ELSE /\ wpc' = [wpc EXCEPT ![name] = "match"]
            /\ tpc' = [tpc EXCEPT ![name] = "scan"]
            /\ UNCHANGED <<wlic, tpos, ch, closes, got>>
    /\ UNCHANGED <<inputs, files, filesLock, wg, walkPos, walkErr, pc, visited,
                   failed, printed, exitCode>>

\* for s.Scan() { s := strings.ToLower(stripPunc(s.Text())); if len(s) > 0
TokScan(name) ==
    /\ tpc[name] = "scan"
    /\ tpos[name] < Len(Scanned(fs[name]))
    /\ tpos' = [tpos EXCEPT ![name] = @ + 1]
    /\ tpc' = [tpc EXCEPT ![name] =
                 IF ToLower(stripPunc(Scanned(fs[name])[tpos[name] + 1])) # ""
                 THEN "send" ELSE "scan"]
    /\ UNCHANGED <<inputs, files, filesLock, wg, wpc, wlic, walkPos, walkErr, pc, visited,
                   failed, printed, exitCode, ch, closes, got>>

\* Mutant of TokSend: the send does not wait for room in the channel.
TokSend_NoBlock(name) ==
    /\ tpc[name] = "send"
    /\ ch' = [ch EXCEPT ![name] = Append(@, Token(name))]
    /\ tpc' = [tpc EXCEPT ![name] = "scan"]
    /\ UNCHANGED <<inputs, files, filesLock, wg, wpc, wlic, walkPos, walkErr, pc, visited,
                   failed, printed, exitCode, tpos, closes, got>>

\* ch <- s
TokSend(name) ==
    /\ tpc[name] = "send"
    /\ Len(ch[name]) < QueueCap
    /\ ch' = [ch EXCEPT ![name] = Append(@, Token(name))]
    /\ tpc' = [tpc EXCEPT ![name] = "scan"]
    /\ UNCHANGED <<inputs, files, filesLock, wg, wpc, wlic, walkPos, walkErr, pc, visited,
                   failed, printed, exitCode, tpos, closes, got>>

\* s.Scan() returns false; close(ch)
TokClose(name) ==
    /\ tpc[name] = "scan"
    /\ tpos[name] = Len(Scanned(fs[name]))
    /\ closes' = [closes EXCEPT ![name] = @ + 1]
    /\ tpc' = [tpc EXCEPT ![name] = "done"]
    /\ UNCHANGED <<inputs, files, filesLock, wg, wpc, wlic, walkPos, walkErr, pc, visited,
                   failed, printed, exitCode, tpos, ch, got>>

\* newMultiMatcher receives the next token from ch
MatcherRecv(name) ==
    /\ wpc[name] = "match"
    /\ ch[name] # <<>>
    /\ got' = [got EXCEPT ![name] = Append(@, Head(ch[name]))]
    /\ ch' = [ch EXCEPT ![name] = Tail(@)]
    /\ UNCHANGED <<inputs, files, filesLock, wg, wpc, wlic, walkPos, walkErr, pc, visited,
                   failed, printed, exitCode, tpc, tpos, closes>>

\* newMultiMatcher finds ch closed and drained; return licenses, nil
MatcherEnd(name) ==
    /\ wpc[name] = "match"
    /\ ch[name] = <<>>
    /\ closes[name] > 0
    /\ wlic' = [wlic EXCEPT ![name] = newMultiMatcher(got[name])]
    /\ wpc' = [wpc EXCEPT ![name] = "lock"]
    /\ UNCHANGED <<inputs, files, filesLock, wg, walkPos, walkErr, pc, visited,
                   failed, printed, exitCode, pipe>>

\* The files of the pipelines looked at on their own: every length up to
\* MaxWords, every start in the cycle, read to the end or with the read of
\* the last word failing.
PipeFiles ==
    {File("ok", "ok", Words(n, k), IF failing THEN n ELSE 0) :
        n \in 1..MaxWords, k \in 1..Len(Cycle), failing \in BOOLEAN}

\* One worker, started by the walk for the only file of the tree, while main
\* is at wg.Wait().
InitPipe ==
    /\ fs \in {(WalkOrder[1] :> c) : c \in PipeFiles}
    /\ override = <<>>
    /\ documented = {}
    /\ quiet = FALSE
    /\ files = <<>>
    /\ filesLock = {}
    /\ wg = 1
    /\ wpc = [p \in Paths |-> IF p = WalkOrder[1] THEN "open" ELSE "none"]
    /\ wlic = [p \in Paths |-> <<>>]
    /\ walkPos = 2
    /\ walkErr = FALSE
    /\ pc = "wait"
    /\ visited = {}
    /\ failed = FALSE
    /\ printed = <<>>
    /\ exitCode = 0
    /\ PipeIdle

NextPipe ==
    \/ \E name \in Paths : WorkerOpen(name)
    \/ \E name \in Paths : TokScan(name)
    \/ \E name \in Paths : TokSend(name)
    \/ \E name \in Paths : TokClose(name)
    \/ \E name \in Paths : MatcherRecv(name)
    \/ \E name \in Paths : MatcherEnd(name)

SpecPipe == InitPipe /\ [][NextPipe]_vars

\* ---------------------------------------------------------------- the run with its pipelines
\* The whole run with every identifyLicenses call taken step by step
\* (WorkerOpen and the pipeline's actions in the place of WorkerDetect).

\* The steps of main's goroutine.
MainStep ==
    \/ WalkError \/ WalkEmptyLock \/ WalkEmptyWrite \/ WalkSpawn \/ WalkEnd
    \/ Wait
    \/ \E name \in Paths : InheritStep(name) \/ ReconcileStep(name) \/ FallbackStep(name)
    \/ InheritEnd \/ ReconcileEnd \/ FallbackEnd
    \/ ReportStep \/ ReportExtra \/ Exit

\* The steps of the worker goroutine of name, the matcher's included.
WorkerStep(name) ==
    \/ WorkerOpen(name) \/ MatcherRecv(name) \/ MatcherEnd(name)
    \/ WorkerLock(name) \/ WorkerWrite(name)

\* The steps of the tokenizer goroutine of name.
TokenizerStep(name) == TokScan(name) \/ TokSend(name) \/ TokClose(name)

\* The files of the runs looked at step by step: at most two words are read
\* of each.
LiveContents == {cEmpty, cNone, cApache, cOpenErr, cReadErr, cStatErr}

\* The runs over these files with an empty override table and an empty
\* manifest.
InitLive ==
    /\ Init
    /\ \A p \in DOMAIN fs : fs[p] \in LiveContents
    /\ override = <<>>
    /\ documented = {}

NextLive ==
    \/ WalkError
    \/ WalkEmptyLock
    \/ WalkEmptyWrite
    \/ WalkSpawn
    \/ WalkEnd
    \/ \E name \in Paths : WorkerOpen(name)
    \/ \E name \in Paths : TokScan(name)
    \/ \E name \in Paths : TokSend(name)
    \/ \E name \in Paths : TokClose(name)
    \/ \E name \in Paths : MatcherRecv(name)
    \/ \E name \in Paths : MatcherEnd(name)
    \/ \E name \in Paths : WorkerLock(name)
    \/ \E name \in Paths : WorkerWrite(name)
    \/ Wait
    \/ \E name \in Paths : InheritStep(name)
    \/ InheritEnd
    \/ \E name \in Paths : ReconcileStep(name)
    \/ ReconcileEnd
    \/ \E name \in Paths : FallbackStep(name)
    \/ FallbackEnd
    \/ ReportStep
    \/ ReportExtra
    \/ Exit

\* The Go scheduler runs every goroutine that can take a step: main, each
\* worker and each tokenizer.
Fairness ==
    /\ WF_vars(MainStep)
    /\ \A name \in Paths : WF_vars(WorkerStep(name))
    /\ \A name \in Paths : WF_vars(TokenizerStep(name))

SpecLive == InitLive /\ [][NextLive]_vars /\ Fairness

\* ================================================================ claims
\* The range loop at position p is at entry n in this step.
LoopStep(p, n) == pc = p /\ n \in DOMAIN files /\ n \notin visited /\ n \in visited'

\* The report and the status selection have run.
Reported == pc = "exit" /\ ~walkErr

HasIgnore(lics) == \E i \in 1..Len(lics) : lics[i] = Ignore

HasBang(lics) == \E i \in 1..Len(lics) : lics[i][Len(lics[i])] = "!"

Orphaned == {e \in documented : e \notin DOMAIN files}

\* C1: when the report has run, the run ends with failure status if and only
\* if some file without the Ignore tag has a tag ending with `!` at any
\* position of its final tag sequence, or some file has no tag at all (it is
\* reported as Unknown!), or the manifest has an entry for no scanned file.
C1_FailureIff ==
    Reported =>
        ((exitCode = 1) <=>
            \/ \E n \in DOMAIN files : ~HasIgnore(files[n]) /\ HasBang(files[n])
            \/ \E n \in DOMAIN files : files[n] = <<>>
            \/ Orphaned # {})

\* C2 as stated: an undocumented file that the reconciliation pass finds as
\* [Apache, MIT] leaves the pass as [Apache!, MIT!].
C2_BothMarked ==
    [][\A n \in Paths :
         (LoopStep("reconcile", n) /\ files[n] = <<Apache, MIT>> /\ n \notin documented)
            => files'[n] = <<Suffix(Apache, "!"), Suffix(MIT, "!")>>]_vars

\* C2 amended: an undocumented file that the reconciliation pass finds as
\* [Apache, MIT] leaves the pass as [Apache, MIT!]: both tags are retained and
\* only the non-trivial tag MIT is marked undocumented.
C2_OnlyNonTrivialMarked ==
    [][\A n \in Paths :
         (LoopStep("reconcile", n) /\ files[n] = <<Apache, MIT>> /\ n \notin documented)
            => files'[n] = <<Apache, Suffix(MIT, "!")>>]_vars

\* An undocumented file with both signatures has been reconciled.
C2_Witness ==
    \E n \in DOMAIN files :
        /\ pc = "reconcile"
        /\ n \in visited
        /\ n \notin documented
        /\ n \notin DOMAIN override
        /\ fs[n] = cBoth
        /\ files[n] = <<Apache, Suffix(MIT, "!")>>

TrivialTags == {Apache, Docs, Empty, Ignore}

\* licenses with `!` appended to each tag that is not a trivial tag
MarkedNonTrivial(ls) ==
    [i \in 1..Len(ls) |-> IF ls[i] \in TrivialTags THEN ls[i] ELSE ls[i] \o <<"!">>]

\* C3 as stated: the reconciliation pass leaves a non-empty classification
\* unmarked if and only if it is a single trivial tag and the manifest
\* documents the file; in every other case each non-trivial tag gets `!`.
C3_UnmarkedIffTrivialAndDocumented ==
    [][\A n \in Paths :
         (LoopStep("reconcile", n) /\ files[n] # <<>>) =>
            LET ls == files[n]
                sat == Len(ls) = 1 /\ ls[1] \in TrivialTags /\ n \in documented
            IN  /\ (files'[n] = ls) <=> sat
                /\ ~sat => files'[n] = MarkedNonTrivial(ls)]_vars

\* C3 amended: the reconciliation pass leaves a non-empty classification
\* unmarked if and only if the manifest documents the file or every tag of
\* it is a trivial tag; in every other case each non-trivial tag gets `!`
\* and the trivial tags stay as they are.
C3_UnmarkedIffDocumentedOrTrivial ==
    [][\A n \in Paths :
         (LoopStep("reconcile", n) /\ files[n] # <<>>) =>
            LET ls == files[n]
                sat == n \in documented \/ \A i \in 1..Len(ls) : ls[i] \in TrivialTags
            IN  /\ (files'[n] = ls) <=> sat
                /\ ~sat => files'[n] = MarkedNonTrivial(ls)]_vars

\* The pass has left an undocumented [Apache] unmarked and a documented
\* classification with a non-trivial tag unmarked too.
C3_Witness ==
    /\ pc = "reconcile"
    /\ \E n \in visited : files[n] = <<Apache>> /\ n \notin documented
    /\ \E n \in visited : files[n] = <<MIT>> /\ n \in documented

\* C4: a zero-byte file gets no worker and, from the walk's write on, its
\* entry is exactly [Empty]: it is there, unchanged by the passes, when the
\* report runs, whatever the path, the override table and the manifest.
C4_EmptyStaysEmpty ==
    \A n \in DOMAIN fs :
        (fs[n].stat = "ok" /\ fs[n].size = 0) =>
            /\ wpc[n] = "none"
            /\ n \in DOMAIN files => files[n] = <<Empty>>
            /\ (pc \in {"report", "status"} \/ Reported) => n \in DOMAIN files

\* A zero-byte file with an override entry, beside an [Apache] LICENSE, is
\* [Empty] at the exit.
C4_Witness ==
    \E n \in DOMAIN files :
        /\ Reported
        /\ fs[n].size = 0
        /\ n \in DOMAIN override
        /\ Len(n) > 1
        /\ Get(files, SubSeq(n, 1, Len(n) - 1) \o <<"LICENSE">>) = <<Apache>>
        /\ files[n] = <<Empty>>

\* The license-named paths of the directory that is the first i components
\* of n; i = 0 is the top-level directory of the tree.
LicensePaths(n, i) == {SubSeq(n, 1, i) \o <<LicNames[k]>> : k \in 1..Len(LicNames)}

\* Directory i of n holds a license-named file with a tag.
HoldsLicense(table, n, i) == \E l \in LicensePaths(n, i) : Get(table, l) # <<>>

\* C5: when the inheritance pass is at a file without a tag, and some ancestor
\* directory of it, the top-level one included, holds a license-named file
\* that is [Apache] while no nearer ancestor holds a license-named file with
\* a tag, the file leaves the step as [Apache~].
C5_InheritsApache ==
    [][\A n \in Paths : \A i \in 0..(Len(n) - 1) :
         (/\ LoopStep("inherit", n)
          /\ files[n] = <<>>
          /\ \A l \in LicensePaths(n, i) : Get(files, l) \in {<<>>, <<Apache>>}
          /\ \E l \in LicensePaths(n, i) : Get(files, l) = <<Apache>>
          /\ \A j \in (i + 1)..(Len(n) - 1) : ~HoldsLicense(files, n, j))
            => files'[n] = <<Apache \o <<"~">>>>]_vars

\* The tags of the license file the claim has the file inherit from: the
\* one in the nearest ancestor directory that holds one with a tag.
NearestTags(table, n) ==
    LET dirs == {i \in 0..(Len(n) - 1) : HoldsLicense(table, n, i)}
        near == CHOOSE i \in dirs : \A j \in dirs : j <= i
        held == {k \in 1..Len(LicNames) : Get(table, SubSeq(n, 1, near) \o <<LicNames[k]>>) # <<>>}
        first == CHOOSE k \in held : \A m \in held : k <= m
    IN  IF dirs = {} THEN <<>> ELSE Get(table, SubSeq(n, 1, near) \o <<LicNames[first]>>)

\* C6: when the inheritance pass is at a file without a tag, every tag the
\* file gets is a tag of the license file of the nearest ancestor that holds
\* one with a tag, with `~` appended, never a tag of a farther one; and when
\* that nearest license file is [Docs] the file stays without a tag.
C6_NearestOnly ==
    [][\A n \in Paths :
         (LoopStep("inherit", n) /\ files[n] = <<>>) =>
            LET near == NearestTags(files, n)
            IN  /\ \A i \in 1..Len(files'[n]) :
                      \E k \in 1..Len(near) : files'[n][i] = near[k] \o <<"~">>
                /\ near = <<Docs>> => files'[n] = <<>>]_vars

\* The pass has left a file below a [Docs] LICENSE without a tag although a
\* farther LICENSE has one, and has given another run's file the tag of its
\* nearest LICENSE only.
C6_Witness ==
    LET child == <<"d", "e", "x.png">>
        near == <<"d", "e", "LICENSE">>
        far == <<"d", "LICENSE">>
    IN  /\ pc = "inherit"
        /\ child \in visited
        /\ Get(files, far) = <<Empty>>
        /\ \/ Get(files, near) = <<Docs>> /\ files[child] = <<>>
           \/ Get(files, near) = <<MIT>> /\ files[child] = <<MIT \o <<"~">>>>

\* C7: the report prints nothing and leaves the failure flag as it is for a
\* file whose tag sequence has the tag Ignore at any position, whatever the
\* other tags are.
C7_IgnoreSuppresses ==
    [][\A n \in Paths :
         (LoopStep("report", n) /\ HasIgnore(files[n]))
            => (printed' = printed /\ failed' = failed)]_vars

\* The verbose report has passed over a file with Ignore behind its first
\* tag and a tag marked `!`, and printed no line for it.
C7_Witness ==
    \E n \in visited :
        /\ pc = "report"
        /\ ~quiet
        /\ files[n][1] # Ignore
        /\ HasIgnore(files[n])
        /\ HasBang(files[n])
        /\ \A i \in 1..Len(printed) : printed[i].name # n

\* C8: at the exit every manifest entry that matches no scanned file has its
\* Extra-License! line and the status is failure.
C8_OrphanReportedAndFails ==
    pc = "exit" =>
        \A e \in Orphaned :
            /\ \E i \in 1..Len(printed) : printed[i] = Line("Error", <<ExtraLicense>>, e)
            /\ exitCode = 1

\* The worker of n returns from its write in this step.
WriteStep(n) == wpc[n] = "write" /\ wpc'[n] = "done"

FirstIndex(ls, t) == CHOOSE i \in 1..Len(ls) : ls[i] = t /\ \A j \in 1..(i - 1) : ls[j] # t

\* C9: the entry a worker writes holds the override tags followed by its
\* detection tags (or the error tag), each once, in first-seen order; with
\* override [Docs] and detection [Apache] it is [Docs, Apache].
C9_OverrideThenDetection ==
    [][\A n \in Paths :
         WriteStep(n) =>
            LET src == Get(override, n) \o wlic[n]
                res == files'[n]
            IN  /\ \A i, j \in 1..Len(res) : i # j => res[i] # res[j]
                /\ {res[i] : i \in 1..Len(res)} = {src[i] : i \in 1..Len(src)}
                /\ \A i, j \in 1..Len(res) :
                      i < j => FirstIndex(src, res[i]) < FirstIndex(src, res[j])
                /\ (Get(override, n) = <<Docs>> /\ wlic[n] = <<Apache>>)
                      => res = <<Docs, Apache>>]_vars

\* A worker has written [Docs, Apache] for override [Docs] and detection
\* [Apache].
C9_Witness ==
    \E n \in DOMAIN files :
        /\ wpc[n] = "done"
        /\ pc \in {"walk", "wait"}
        /\ Get(override, n) = <<Docs>>
        /\ wlic[n] = <<Apache>>
        /\ files[n] = <<Docs, Apache>>

ErrorTags == {<<"Error: open failed", "!">>, <<"Error: read failed", "!">>}

\* C10: once a worker has its detection result, a file that could not be
\* opened or whose read failed has the single error tag as that result.
C10_ErrorsSurface ==
    \A n \in DOMAIN fs :
        (wpc[n] \in {"lock", "write", "done"} /\ (fs[n].open = "err" \/ fs[n].fail # 0))
            => (Len(wlic[n]) = 1 /\ wlic[n][1] \in ErrorTags)

\* The tag is an I/O error tag, as written by a worker or marked since.
IsErrorTag(t) == \E e \in ErrorTags : t = e \/ t = Suffix(e, "!")

HasErrorTag(lics) == \E i \in 1..Len(lics) : IsErrorTag(lics[i])

\* C11: when the report has run, the status is failure if some file's tag
\* sequence contains an I/O error tag, whatever the override table holds for
\* the path and whether or not the manifest documents the file.
C11_ErrorTagFails ==
    Reported =>
        ((\E n \in DOMAIN files : HasErrorTag(files[n])) => exitCode = 1)

\* The entry cannot be stat'ed, opened or read.
Fails(c) == c.stat = "err" \/ (c.size # 0 /\ (c.open = "err" \/ c.fail # 0))

\* C12: a failure on a single entry never aborts the scan: at the exit every
\* other file of the tree has its entry in the result table, the report has
\* passed over every entry of the table, and the failure shows as a non-zero
\* status.
C12_ScanNeverAborts ==
    pc = "exit" =>
        /\ \A n \in DOMAIN fs : ~Fails(fs[n]) => n \in DOMAIN files
        /\ visited = DOMAIN files
        /\ (\E n \in DOMAIN fs : Fails(fs[n])) => exitCode = 1

\* C13: the tag sequence a file ends with does not depend on the order the
\* inheritance pass visits the entries in: the pass's step at one entry
\* leaves what the pass does at every entry not yet visited as it was (and
\* so two runs over the same inputs, which differ in that order only, end
\* with the same table).
C13_OrderIndependent ==
    [][\A n, m \in Paths :
         (LoopStep("inherit", n) /\ m \in DOMAIN files /\ m \notin visited')
            => InheritEntry(files', m) = InheritEntry(files, m)]_vars

\* The number of pieces of the tag t that are the suffix character c.
Count(t, c) == Cardinality({i \in 1..Len(t) : t[i] = c})

\* C14: no tag of the result table ends with more than one `~` or with more
\* than one `!`.
C14_SuffixOnce ==
    \A n \in DOMAIN files : \A i \in 1..Len(files[n]) :
        Count(files[n][i], "~") <= 1 /\ Count(files[n][i], "!") <= 1

\* The worker of n has been started and has not returned.
Running(n) == wpc[n] \in {"open", "match", "lock", "write"}

\* main is past wg.Wait().
Joined == pc \notin {"walk", "wait"}

\* C15: once the wait has returned no worker runs: every worker that was
\* started has written its entry and finished, the counter is zero and the
\* lock is free; and from then on no worker is started or takes a step.  The
\* passes, which run after the wait only, never meet a running worker.
C15_PassesAfterWorkers ==
    [][/\ Joined' =>
            /\ wg' = 0
            /\ filesLock' = {}
            /\ \A n \in Paths : ~Running(n)'
            /\ \A n \in Paths : wpc'[n] = "done" => n \in DOMAIN files'
       /\ Joined => wpc' = wpc]_vars

\* The inheritance pass is at work on a table that as many workers as the
\* bound allows have written.
C15_Witness ==
    /\ pc = "inherit"
    /\ visited # {}
    /\ Cardinality({n \in Paths : wpc[n] = "done"}) = MaxWorkers

\* The entries whose value differs between the two tables.
Changed(old, new) ==
    {n \in DOMAIN old \cup DOMAIN new : Get(old, n) # Get(new, n) \/ (n \in DOMAIN new \ DOMAIN old)}

\* The entry the holder h of the lock is at: the walker's current name, or
\* the worker's own name.
EntryOf(h) == IF h = Main THEN WalkOrder[walkPos] ELSE h

\* C16: until the wait has returned, at most one of the walker and the
\* workers holds the table lock; a worker holds it only between its Lock and
\* its write, never while it opens, reads and tokenizes its file; every step
\* that writes the table is taken by the holder of the lock, is the
\* read-modify-write of the holder's one entry, and ends with the lock
\* released; the step that takes the lock leaves the table alone.
C16_LockedAccess ==
    [][~Joined =>
         /\ Cardinality(filesLock') <= 1
         /\ \A n \in Paths : n \in filesLock' <=> wpc'[n] = "write"
         /\ \A n \in Paths : wpc'[n] = "open" => n \notin filesLock'
         /\ files' # files =>
               \E h \in filesLock :
                  /\ filesLock = {h}
                  /\ Changed(files, files') = {EntryOf(h)}
                  /\ filesLock' = {}
         /\ filesLock' # filesLock => (filesLock = {} \/ filesLock' = {})
         /\ (filesLock = {} /\ filesLock' # {}) => files' = files]_vars

\* A worker holds the lock while the walker is at a zero-byte file and
\* another worker has its result and waits for the lock.
C16_Witness ==
    \E n, m \in Paths :
        /\ pc = "walk"
        /\ filesLock = {n}
        /\ wpc[n] = "write"
        /\ wpc[m] = "lock"
        /\ NextEntry # 0
        /\ fs[WalkOrder[NextEntry]].stat = "ok"
        /\ fs[WalkOrder[NextEntry]].size = 0

ApacheInherited == Suffix(Apache, "~")

\* C19: the reconciler takes the inherited tag Apache~ for a non-trivial
\* tag: it leaves the classification [Apache~] of an undocumented file as
\* [Apache~!] and that of a documented file as it is; and a run whose report
\* meets [Apache~!] ends with failure status.
C19_InheritedNotTrivial ==
    [][/\ \A n \in Paths :
            (LoopStep("reconcile", n) /\ files[n] = <<ApacheInherited>>) =>
                files'[n] = IF n \in documented
                            THEN <<ApacheInherited>>
                            ELSE <<Suffix(ApacheInherited, "!")>>
       /\ (pc' = "exit" /\ \E n \in DOMAIN files : files[n] = <<Suffix(ApacheInherited, "!")>>)
             => exitCode' = 1]_vars

\* A run has ended with failure status over an undocumented file that
\* inherited Apache~, with nothing else to fail by.
C19_Witness ==
    \E n \in DOMAIN files :
        /\ Reported
        /\ fs[n] = cNone
        /\ n \notin documented
        /\ files[n] = <<Suffix(ApacheInherited, "!")>>
        /\ exitCode = 1
        /\ \A m \in DOMAIN files \ {n} : ~HasBang(files[m]) /\ files[m] # <<>>
        /\ Orphaned = {}

HasKind(n) == filekind(n) # ""

KindTag(n) == Tag(filekind(n))

\* C20: no entry is a kind tag before the reconciliation pass has ended; the
\* fallback changes only entries without a tag, and gives a file with a kind
\* exactly its kind tag, whatever the manifest holds; the entry then stays as
\* it is to the exit.  A file the fallback leaves without a tag is reported
\* as Unknown! in an error line and the run ends with failure status.
C20_FallbackLast ==
    [][/\ \A n \in DOMAIN files' :
            (HasKind(n) /\ files'[n] = <<KindTag(n)>>) => pc \in {"fallback", "report", "status"}
       /\ \A n \in Paths :
            LoopStep("fallback", n) =>
               files'[n] = IF files[n] = <<>> /\ HasKind(n) THEN <<KindTag(n)>> ELSE files[n]
       /\ \A n \in DOMAIN files :
            (pc \in {"report", "status"} \/ (pc = "fallback" /\ n \in visited))
               => files'[n] = files[n]
       /\ \A n \in Paths :
            (LoopStep("report", n) /\ files[n] = <<>>) =>
               (failed' /\ printed' = Append(printed, Line("Error", <<Unknown>>, n)))
       /\ (pc = "status" /\ pc' = "exit" /\ \E n \in DOMAIN files : files[n] = <<>>)
             => exitCode' = 1]_vars

\* A run has ended with an undocumented file classified by its kind alone
\* and unmarked, and with a file without tag and kind reported as Unknown!,
\* with failure status.
C20_Witness ==
    \E n, m \in DOMAIN files :
        /\ Reported
        /\ fs[n] = cNone
        /\ n \notin documented
        /\ files[n] = <<KindTag(n)>>
        /\ files[m] = <<>>
        /\ \E i \in 1..Len(printed) : printed[i] = Line("Error", <<Unknown>>, m)
        /\ exitCode = 1

\* Every token the tokenizer of n is to send, in order.
Tokens(n) == Tokenize(Scanned(fs[n]))

IsPrefix(s, t) == Len(s) <= Len(t) /\ s = SubSeq(t, 1, Len(s))

\* C17: in every step of a pipeline the channel holds at most QueueCap (32)
\* tokens and no empty one; the tokens received and those in the channel,
\* in this order, are the first tokens of the file in the order produced;
\* the tokenizer at a send does not move while the channel is full, and the
\* matcher does not move while it is empty and not closed; the channel is
\* closed at most once, and only when every token has been sent; the
\* matcher ends only on a closed and drained channel, with all the tokens
\* received, and returns what identifyLicenses returns for the file.
C17_BoundedQueue ==
    [][\A n \in DOMAIN fs :
         /\ Len(ch'[n]) <= QueueCap
         /\ \A i \in 1..Len(ch'[n]) : ch'[n][i] # ""
         /\ IsPrefix(got'[n] \o ch'[n], Tokens(n))
         /\ got'[n] # got[n] => (got'[n] = Append(got[n], Head(ch[n])) /\ ch'[n] = Tail(ch[n]))
         /\ (tpc[n] = "send" /\ Len(ch[n]) = QueueCap)
               => (tpc'[n] = "send" /\ tpos'[n] = tpos[n])
         /\ (wpc[n] = "match" /\ ch[n] = <<>> /\ closes[n] = 0)
               => (wpc'[n] = "match" /\ got'[n] = got[n])
         /\ closes'[n] <= 1
         /\ closes'[n] = 1 => (tpc'[n] = "done" /\ got'[n] \o ch'[n] = Tokens(n))
         /\ (wpc[n] = "match" /\ wpc'[n] # "match")
               => /\ closes[n] = 1
                  /\ ch[n] = <<>>
                  /\ got[n] = Tokens(n)
                  /\ wlic'[n] = identifyLicenses(fs[n]).licenses]_vars

\* The channel is full, the tokenizer waits at its send with the next token,
\* having dropped an empty token before, and the matcher has received
\* nothing yet.
C17_Witness ==
    \E n \in DOMAIN fs :
        /\ Len(ch[n]) = QueueCap
        /\ tpc[n] = "send"
        /\ got[n] = <<>>
        /\ tpos[n] > QueueCap + 1

\* No goroutine is left at work: the counter is zero, the lock is free, every
\* worker that was started has returned and every tokenizer that was
\* started has closed its channel, once.
Quiescent ==
    /\ wg = 0
    /\ filesLock = {}
    /\ \A n \in Paths : ~Running(n)
    /\ \A n \in Paths : tpc[n] \in {"none", "done"}
    /\ \A n \in Paths : tpc[n] = "done" => closes[n] = 1

\* C18: under fair scheduling of main, the workers and the tokenizers, every
\* run reaches its exit with no goroutine left at work.
C18_Terminates == <>(pc = "exit" /\ Quiescent)

\* A run has reached its exit after two workers, each with its tokenizer,
\* and the walker at a zero-byte file have used the lock.
C18_Witness ==
    /\ pc = "exit"
    /\ Quiescent
    /\ Cardinality({n \in Paths : wpc[n] = "done" /\ closes[n] = 1}) = MaxWorkers
    /\ \E n \in DOMAIN files : fs[n].size = 0

====
